---- MODULE Spec2Model ----
(***************************************************************************)
(* Model of the storage substrate of TDB:                                  *)
(*   - FrameManager (src/server/storage_engine/buffer/frame_manager.cpp),  *)
(*     a pinned-frame cache over a bounded pool of frames;                 *)
(*   - LogManager / LogEntryIterator / recovery                            *)
(*     (src/server/storage_engine/recover/log_manager.cpp).                *)
(* Frame, FrameAllocator, FrameLruCache, LogBuffer, LogFile and the        *)
(* transaction manager are collaborators whose code is not part of the     *)
(* sources at hand; they are modelled after their documented contracts.    *)
(***************************************************************************)
EXTENDS Integers, Sequences, FiniteSets, TLC

\* ------------------------------------------------------------------ bounds
PoolNum == 2        \* pool_num handed to FrameManager::init
MaxPin == 2         \* pins taken on one frame at a time
MaxCount == 2       \* largest count handed to evict_frames

FrameIds == {<<1, 1>>, <<1, 2>>, <<2, 1>>}     \* (file_desc, page_num)
FileDescs == {id[1] : id \in FrameIds}
Frames == 1..PoolNum
NoFrame == 0        \* nullptr
Counts == 0..MaxCount

VARIABLES
  frames_,      \* FrameLruCache: sequence of [id, frame], front = next eviction candidate
  allocator_,   \* FrameAllocator: the set of frames it can hand out
  inited,       \* allocator_.init has succeeded
  pin_count,    \* Frame::pin_count_ of every frame of the pool
  cleanup_pc,   \* the thread in cleanup: "idle", or "destroy" (past the residency test)
  last,         \* the call that returned last, with its result
  failed,       \* an ASSERT has failed (the process is aborted)
  log_buffer_,  \* LogBuffer: the entries appended and not yet flushed
  log_file_,    \* LogFile: the words written to the file
  appended,     \* history: the entries whose append returned SUCCESS
  log_rc,       \* the LogManager call that returned last, with its codes
  opened,       \* "write": the log is being written; "read": reopened after a stop or crash
  file_pos,     \* LogFile: the read cursor
  log_entry_,   \* LogEntryIterator::log_entry_
  it_rc,        \* what the last LogEntryIterator::next returned
  yielded,      \* history: the entries next() has returned SUCCESS with
  rec_pc,       \* position of recover: "idle", "body", "next", "rollback", "done", "crashed"
  uncommitted_trx_ids,
  created,      \* TrxManager: create_trx calls per transaction id (saturating)
  redone,       \* Trx::redo calls per log entry (by position in the log, saturating)
  rolled        \* Trx::rollback calls per transaction id (saturating)

fm_vars == <<frames_, allocator_, inited, pin_count, cleanup_pc, last, failed>>
it_vars == <<file_pos, log_entry_, it_rc, yielded>>
rec_vars == <<rec_pc, uncommitted_trx_ids, created, redone, rolled>>
log_vars == <<log_buffer_, log_file_, appended, log_rc, opened, it_vars, rec_vars>>
vars == <<fm_vars, log_vars>>

Min(a, b) == IF a < b THEN a ELSE b

\* the record of a returned call: the count handed to evict_frames, and the result
\* (frame, rc, n or list)
NoRet == [op |-> "none", count |-> 0, frame |-> NoFrame, rc |-> "", n |-> 0, list |-> <<>>]
Ret(op, frame, rc, n, list) ==
  [op |-> op, count |-> 0, frame |-> frame, rc |-> rc, n |-> n, list |-> list]

\* ------------------------------------------------------------ Frame
pin(pins, frame) == [pins EXCEPT ![frame] = @ + 1]
unpin_frame(pins, frame) == [pins EXCEPT ![frame] = @ - 1]
can_evict(pins, frame) == pins[frame] = 0

\* ------------------------------------------------------------ FrameLruCache
CacheIndex(c, id) ==
  IF \E i \in 1..Len(c) : c[i].id = id
    THEN CHOOSE i \in 1..Len(c) : c[i].id = id
    ELSE 0
CacheRemove(c, id) == SelectSeq(c, LAMBDA e : e.id # id)
\* get: a hit moves the entry to the most-recently-used end
CacheGet(c, id) ==
  LET i == CacheIndex(c, id) IN
  IF i = 0
    THEN [found |-> FALSE, value |-> NoFrame, cache |-> c]
    ELSE [found |-> TRUE, value |-> c[i].frame, cache |-> Append(CacheRemove(c, id), c[i])]
CachePut(c, id, frame) == Append(CacheRemove(c, id), [id |-> id, frame |-> frame])
CacheCount(c) == Len(c)

Resident(c) == {c[i].frame : i \in 1..Len(c)}
ResidentIds(c) == {c[i].id : i \in 1..Len(c)}

\* ------------------------------------------------------------ FrameManager helpers
\* get_internal without the pin
get_internal_nopin(c, pins, frame_id) ==
  LET g == CacheGet(c, frame_id) IN
  IF g.value # NoFrame
    THEN [frame |-> g.value, frames |-> g.cache, pins |-> pins]
    ELSE [frame |-> NoFrame, frames |-> c, pins |-> pins]

get_internal(c, pins, frame_id) ==
  LET g == CacheGet(c, frame_id) IN
  IF g.value # NoFrame
    THEN [frame |-> g.value, frames |-> g.cache, pins |-> pin(pins, g.value)]
    ELSE [frame |-> NoFrame, frames |-> c, pins |-> pins]

\* free_internal with the cache entry left behind (a forgotten frames_.remove)
free_internal_keep(c, free, pins, frame_id, frame) ==
  LET g == CacheGet(c, frame_id) IN
  IF g.found /\ frame = g.value /\ pins[frame] = 1
    THEN [ok |-> TRUE, frames |-> g.cache, free |-> free \cup {frame},
          pins |-> unpin_frame(pins, frame)]
    ELSE [ok |-> FALSE, frames |-> c, free |-> free, pins |-> pins]

\* free_internal with the pin_count part of the assertion dropped
free_internal_anypin(c, free, pins, frame_id, frame) ==
  LET g == CacheGet(c, frame_id) IN
  IF g.found /\ frame = g.value /\ pins[frame] >= 1
    THEN [ok |-> TRUE, frames |-> CacheRemove(g.cache, frame_id), free |-> free \cup {frame},
          pins |-> unpin_frame(pins, frame)]
    ELSE [ok |-> FALSE, frames |-> c, free |-> free, pins |-> pins]

\* free_internal with the frame->unpin() left out
free_internal_nounpin(c, free, pins, frame_id, frame) ==
  LET g == CacheGet(c, frame_id) IN
  IF g.found /\ frame = g.value /\ pins[frame] = 1
    THEN [ok |-> TRUE, frames |-> CacheRemove(g.cache, frame_id), free |-> free \cup {frame},
          pins |-> pins]
    ELSE [ok |-> FALSE, frames |-> c, free |-> free, pins |-> pins]

free_internal(c, free, pins, frame_id, frame) ==
  LET g == CacheGet(c, frame_id) IN
  IF g.found /\ frame = g.value /\ pins[frame] = 1
    THEN [ok |-> TRUE, frames |-> CacheRemove(g.cache, frame_id), free |-> free \cup {frame},
          pins |-> unpin_frame(pins, frame)]
    ELSE [ok |-> FALSE, frames |-> c, free |-> free, pins |-> pins]

\* the fetcher of evict_frames without the can_evict test
evict_fetcher_pinned(st, e, count, fails, pins) ==
  LET st2 == IF e.frame \notin fails
               THEN [frames |-> CacheRemove(st.frames, e.id),
                     free |-> st.free \cup {e.frame},
                     evicted |-> st.evicted + 1]
               ELSE st
  IN [st |-> st2, cont |-> st2.evicted < count]

\* the fetcher of evict_frames ending the traversal when evict_action fails
evict_fetcher_stop(st, e, count, fails, pins) ==
  LET st2 == IF can_evict(pins, e.frame) /\ e.frame \notin fails
               THEN [frames |-> CacheRemove(st.frames, e.id),
                     free |-> st.free \cup {e.frame},
                     evicted |-> st.evicted + 1]
               ELSE st
  IN [st |-> st2,
      cont |-> st2.evicted < count /\ ~(can_evict(pins, e.frame) /\ e.frame \in fails)]

\* the fetcher lambda of evict_frames: st is what it captures (frames_, allocator_,
\* evicted), e the visited entry, fails the frames evict_action fails on
evict_fetcher(st, e, count, fails, pins) ==
  LET st2 == IF can_evict(pins, e.frame) /\ e.frame \notin fails
               THEN [frames |-> CacheRemove(st.frames, e.id),
                     free |-> st.free \cup {e.frame},
                     evicted |-> st.evicted + 1]
               ELSE st
  IN [st |-> st2, cont |-> st2.evicted < count]

\* frames_.foreach(fetcher): visit the entries in eviction order until fetcher says stop
RECURSIVE evict_foreach(_, _, _, _, _, _)
evict_foreach(snapshot, i, st, count, fails, pins) ==
  IF i > Len(snapshot)
    THEN st
    ELSE LET r == evict_fetcher(st, snapshot[i], count, fails, pins) IN
         IF r.cont
           THEN evict_foreach(snapshot, i + 1, r.st, count, fails, pins)
           ELSE r.st

\* the fetcher of find_list without frame->pin()
RECURSIVE find_fetch_nopin(_, _, _, _)
find_fetch_nopin(c, i, file_desc, acc) ==
  IF i > Len(c)
    THEN acc
    ELSE find_fetch_nopin(c, i + 1, file_desc,
           IF file_desc = c[i].id[1]
             THEN [pins |-> acc.pins, list |-> Append(acc.list, c[i].frame)]
             ELSE acc)

\* the fetcher of find_list applied to the whole cache
RECURSIVE find_fetch(_, _, _, _)
find_fetch(c, i, file_desc, acc) ==
  IF i > Len(c)
    THEN acc
    ELSE find_fetch(c, i + 1, file_desc,
           IF file_desc = c[i].id[1]
             THEN [pins |-> pin(acc.pins, c[i].frame), list |-> Append(acc.list, c[i].frame)]
             ELSE acc)

\* the frames evict_action can be called on
Evictable(c, pins) == {f \in Resident(c) : can_evict(pins, f)}

PinsOk(pins) == \A f \in Frames : pins[f] <= MaxPin

\* ------------------------------------------------------------ operations
\* alloc, get, free, find_list and evict_frames take lock_ (std::lock_guard) as their
\* first statement and hold it until they return: each is one step, whichever thread
\* runs it.  init and cleanup take no lock: cleanup is two steps, the residency test
\* and the destruction, and cleanup_pc is the position of the thread running it.

init ==
  /\ UNCHANGED log_vars
  /\ ~failed /\ ~inited
  /\ \/ /\ allocator_' = Frames
        /\ inited' = TRUE
        /\ last' = Ret("init", NoFrame, "SUCCESS", 0, <<>>)
     \/ /\ UNCHANGED <<allocator_, inited>>
        /\ last' = Ret("init", NoFrame, "NOMEM", 0, <<>>)
  /\ UNCHANGED <<frames_, pin_count, cleanup_pc, failed>>

\* cleanup without the residency test
cleanup_check_always ==
  /\ UNCHANGED log_vars
  /\ ~failed /\ cleanup_pc = "idle"
  /\ last' = last
  /\ cleanup_pc' = "destroy"
  /\ UNCHANGED <<frames_, allocator_, inited, pin_count, failed>>

\* cleanup, up to the residency test
cleanup_check ==
  /\ UNCHANGED log_vars
  /\ ~failed /\ cleanup_pc = "idle"
  /\ IF CacheCount(frames_) > 0
       THEN /\ last' = Ret("cleanup", NoFrame, "INTERNAL", 0, <<>>)
            /\ cleanup_pc' = "idle"
       ELSE /\ last' = last
            /\ cleanup_pc' = "destroy"
  /\ UNCHANGED <<frames_, allocator_, inited, pin_count, failed>>

\* cleanup, frames_.destroy() and the return
cleanup_destroy ==
  /\ UNCHANGED log_vars
  /\ ~failed /\ cleanup_pc = "destroy"
  /\ frames_' = <<>>
  /\ last' = Ret("cleanup", NoFrame, "SUCCESS", 0, <<>>)
  /\ cleanup_pc' = "idle"
  /\ UNCHANGED <<allocator_, inited, pin_count, failed>>

alloc(file_desc, page_num) ==
  LET frame_id == <<file_desc, page_num>>
      g == get_internal(frames_, pin_count, frame_id)
  IN
  /\ UNCHANGED log_vars
  /\ ~failed
  /\ UNCHANGED <<inited, cleanup_pc>>
  /\ IF g.frame # NoFrame
       THEN /\ PinsOk(g.pins)
            /\ frames_' = g.frames
            /\ pin_count' = g.pins
            /\ last' = Ret("alloc", g.frame, "", 0, <<>>)
            /\ UNCHANGED <<allocator_, failed>>
       ELSE IF allocator_ = {}
         THEN /\ last' = Ret("alloc", NoFrame, "", 0, <<>>)
              /\ UNCHANGED <<frames_, allocator_, pin_count, failed>>
         ELSE \E frame \in allocator_ :
                IF pin_count[frame] # 0
                  THEN /\ failed' = TRUE
                       /\ allocator_' = allocator_ \ {frame}
                       /\ UNCHANGED <<frames_, pin_count, last>>
                  ELSE /\ allocator_' = allocator_ \ {frame}
                       /\ pin_count' = pin(pin_count, frame)
                       /\ frames_' = CachePut(frames_, frame_id, frame)
                       /\ last' = Ret("alloc", frame, "", 0, <<>>)
                       /\ failed' = failed

get(file_desc, page_num) ==
  LET frame_id == <<file_desc, page_num>>
      g == get_internal(frames_, pin_count, frame_id)
  IN
  /\ UNCHANGED log_vars
  /\ ~failed
  /\ PinsOk(g.pins)
  /\ frames_' = g.frames
  /\ pin_count' = g.pins
  /\ last' = Ret("get", g.frame, "", 0, <<>>)
  /\ UNCHANGED <<allocator_, inited, cleanup_pc, failed>>

evict_frames(count, fails) ==
  LET r == evict_foreach(frames_, 1, [frames |-> frames_, free |-> allocator_, evicted |-> 0],
                         count, fails, pin_count)
  IN
  /\ UNCHANGED log_vars
  /\ ~failed
  /\ frames_' = r.frames
  /\ allocator_' = r.free
  /\ last' = [Ret("evict_frames", NoFrame, "", r.evicted, <<>>) EXCEPT !.count = count]
  /\ UNCHANGED <<inited, pin_count, cleanup_pc, failed>>

find_list(file_desc) ==
  LET r == find_fetch(frames_, 1, file_desc, [pins |-> pin_count, list |-> <<>>]) IN
  /\ UNCHANGED log_vars
  /\ ~failed
  /\ PinsOk(r.pins)
  /\ pin_count' = r.pins
  /\ last' = Ret("find_list", NoFrame, "", 0, r.list)
  /\ UNCHANGED <<frames_, allocator_, inited, cleanup_pc, failed>>

free(file_desc, page_num, frame) ==
  LET frame_id == <<file_desc, page_num>>
      r == free_internal(frames_, allocator_, pin_count, frame_id, frame)
  IN
  /\ UNCHANGED log_vars
  /\ ~failed
  /\ UNCHANGED <<inited, cleanup_pc>>
  /\ IF r.ok
       THEN /\ frames_' = r.frames
            /\ allocator_' = r.free
            /\ pin_count' = r.pins
            /\ last' = Ret("free", frame, "SUCCESS", 0, <<>>)
            /\ failed' = failed
       ELSE /\ failed' = TRUE
            /\ UNCHANGED <<frames_, allocator_, pin_count, last>>

\* a holder of a pin gives it up (Frame::unpin, outside the FrameManager)
unpin(frame) ==
  /\ UNCHANGED log_vars
  /\ ~failed
  /\ pin_count[frame] > 0
  /\ pin_count' = unpin_frame(pin_count, frame)
  /\ UNCHANGED <<frames_, allocator_, inited, cleanup_pc, last, failed>>

\* ------------------------------------------------------------ log: bounds and data
MaxLog == 3         \* entries appended to one log
MaxCalls == 2       \* the call counters of the transaction manager saturate here

TrxIds == {1, 2}
CommitXids == {7}
\* LogEntryType
ERROR == 0
MTR_BEGIN == 1
MTR_COMMIT == 2
MTR_ROLLBACK == 3
INSERT == 4
NoType == -1        \* marks the null log_entry_
HeaderLen == 3      \* sizeof(LogEntryHeader): log_type, trx_id, log_entry_len
TableId == 1
RecordData == <<5>>

NoEntry == [type |-> NoType, trx_id |-> 0, payload |-> <<>>]

\* LogEntry builders
build_mtr_entry(type, trx_id) == [type |-> type, trx_id |-> trx_id, payload |-> <<>>]
build_commit_entry(trx_id, commit_xid) ==
  [type |-> MTR_COMMIT, trx_id |-> trx_id, payload |-> <<commit_xid>>]
build_record_entry(type, trx_id, table_id, data) ==
  [type |-> type, trx_id |-> trx_id, payload |-> <<table_id, Len(data)>> \o data]
\* LogEntry::build(header, data)
build(header, data) == [type |-> header[1], trx_id |-> header[2], payload |-> data]

\* the words of an entry in the file: header (log_type, trx_id, log_entry_len), payload
Serialize(e) == <<e.type, e.trx_id, Len(e.payload)>> \o e.payload
RECURSIVE SerializeAll(_)
SerializeAll(es) == IF es = <<>> THEN <<>> ELSE Serialize(Head(es)) \o SerializeAll(Tail(es))

Entries ==
  {build_mtr_entry(ty, t) : ty \in {MTR_BEGIN, MTR_ROLLBACK}, t \in TrxIds}
    \cup {build_commit_entry(t, x) : t \in TrxIds, x \in CommitXids}
    \cup {build_record_entry(INSERT, t, TableId, RecordData) : t \in TrxIds}

Sat(n) == IF n < MaxCalls THEN n + 1 ELSE MaxCalls

\* ------------------------------------------------------------ LogBuffer, LogFile
\* LogBuffer::append_log_entry
append_log_entry(buffer, entry) == [rc |-> "SUCCESS", buffer |-> Append(buffer, entry)]

\* LogBuffer::flush_buffer: the first `written` entries reach the file before an I/O
\* error (none when written = Len(buffer)); what is not written stays in the buffer
flush_buffer(buffer, file, written) ==
  [rc |-> IF written = Len(buffer) THEN "SUCCESS" ELSE "IOERR",
   buffer |-> SubSeq(buffer, written + 1, Len(buffer)),
   file |-> file \o SerializeAll(SubSeq(buffer, 1, written))]

\* LogFile::read of n words at the cursor
file_read(file, pos, n) ==
  IF pos + n <= Len(file)
    THEN [rc |-> "SUCCESS", data |-> SubSeq(file, pos + 1, pos + n), pos |-> pos + n,
          eof |-> FALSE]
    ELSE [rc |-> "IOERR", data |-> <<>>, pos |-> Len(file), eof |-> TRUE]

\* ------------------------------------------------------------ LogEntryIterator
\* next with the payload read only for entry_len > 1
next_long_payload(file, pos, entry, ioerr) ==
  LET h == IF ioerr
             THEN [rc |-> "IOERR", data |-> <<>>, pos |-> pos, eof |-> FALSE]
             ELSE file_read(file, pos, HeaderLen)
  IN
  IF h.rc # "SUCCESS"
    THEN [rc |-> IF h.eof THEN "RECORD_EOF" ELSE h.rc, pos |-> h.pos, entry |-> entry]
    ELSE LET entry_len == h.data[3]
             d == IF entry_len > 1
                    THEN file_read(file, h.pos, entry_len)
                    ELSE [rc |-> h.rc, data |-> <<>>, pos |-> h.pos, eof |-> FALSE]
         IN IF d.rc # "SUCCESS"
              THEN [rc |-> d.rc, pos |-> d.pos, entry |-> entry]
              ELSE [rc |-> d.rc, pos |-> d.pos, entry |-> build(h.data, d.data)]

\* next dropping the stored entry when a read fails
next_reset_on_fail(file, pos, entry, ioerr) ==
  LET h == IF ioerr
             THEN [rc |-> "IOERR", data |-> <<>>, pos |-> pos, eof |-> FALSE]
             ELSE file_read(file, pos, HeaderLen)
  IN
  IF h.rc # "SUCCESS"
    THEN [rc |-> IF h.eof THEN "RECORD_EOF" ELSE h.rc, pos |-> h.pos, entry |-> NoEntry]
    ELSE LET entry_len == h.data[3]
             d == IF entry_len > 0
                    THEN file_read(file, h.pos, entry_len)
                    ELSE [rc |-> h.rc, data |-> <<>>, pos |-> h.pos, eof |-> FALSE]
         IN IF d.rc # "SUCCESS"
              THEN [rc |-> d.rc, pos |-> d.pos, entry |-> NoEntry]
              ELSE [rc |-> d.rc, pos |-> d.pos, entry |-> build(h.data, d.data)]

\* LogEntryIterator::next; ioerr: the header read fails for another reason than
\* end-of-file
next(file, pos, entry, ioerr) ==
  LET h == IF ioerr
             THEN [rc |-> "IOERR", data |-> <<>>, pos |-> pos, eof |-> FALSE]
             ELSE file_read(file, pos, HeaderLen)
  IN
  IF h.rc # "SUCCESS"
    THEN [rc |-> IF h.eof THEN "RECORD_EOF" ELSE h.rc, pos |-> h.pos, entry |-> entry]
    ELSE LET entry_len == h.data[3]
             d == IF entry_len > 0
                    THEN file_read(file, h.pos, entry_len)
                    ELSE [rc |-> h.rc, data |-> <<>>, pos |-> h.pos, eof |-> FALSE]
         IN IF d.rc # "SUCCESS"
              THEN [rc |-> d.rc, pos |-> d.pos, entry |-> entry]
              ELSE [rc |-> d.rc, pos |-> d.pos, entry |-> build(h.data, d.data)]

valid(entry) == entry # NoEntry

\* the iterator state after a call of next
Advance(r) ==
  /\ file_pos' = r.pos
  /\ log_entry_' = r.entry
  /\ it_rc' = r.rc
  /\ yielded' = IF r.rc = "SUCCESS" THEN Append(yielded, r.entry) ELSE yielded

\* ------------------------------------------------------------ LogManager
LogRet(op, rc, append_rc, sync_rc) ==
  [op |-> op, rc |-> rc, append_rc |-> append_rc, sync_rc |-> sync_rc]
NoLogRet == LogRet("none", "", "none", "none")
NullEntry == NoEntry      \* a builder that could not allocate returns null

\* LogManager::append_log
append_log(buffer, log_entry) ==
  IF log_entry = NullEntry
    THEN [rc |-> "INVALID_ARGUMENT", buffer |-> buffer]
    ELSE append_log_entry(buffer, log_entry)

\* append_commit_trx_log returning after the append, without sync
append_commit_nosync(buffer, file, log_entry, written) ==
  LET a == append_log(buffer, log_entry) IN
  [rc |-> a.rc, append_rc |-> a.rc, sync_rc |-> "none", buffer |-> a.buffer, file |-> file]

\* the body of LogManager::append_commit_trx_log on the entry its builder returned
append_commit(buffer, file, log_entry, written) ==
  LET a == append_log(buffer, log_entry) IN
  IF a.rc # "SUCCESS"
    THEN [rc |-> a.rc, append_rc |-> a.rc, sync_rc |-> "none", buffer |-> a.buffer,
          file |-> file]
    ELSE LET f == flush_buffer(a.buffer, file, Min(written, Len(a.buffer))) IN
         [rc |-> f.rc, append_rc |-> a.rc, sync_rc |-> f.rc, buffer |-> f.buffer,
          file |-> f.file]

Writing == opened = "write" /\ Len(appended) < MaxLog

\* what an append_*_log call that only appends leaves behind
Appended(op, rc, log_entry, a) ==
  /\ log_buffer_' = a.buffer
  /\ appended' = IF a.rc = "SUCCESS" THEN Append(appended, log_entry) ELSE appended
  /\ log_rc' = LogRet(op, rc, a.rc, "none")
  /\ UNCHANGED <<log_file_, opened, it_vars, rec_vars>>

append_begin_trx_log(trx_id, nomem) ==
  LET log_entry == IF nomem THEN NullEntry ELSE build_mtr_entry(MTR_BEGIN, trx_id)
      a == append_log(log_buffer_, log_entry)
  IN
  /\ UNCHANGED fm_vars
  /\ Writing
  /\ Appended("append_begin_trx_log", a.rc, log_entry, a)

append_rollback_trx_log(trx_id, nomem) ==
  LET log_entry == IF nomem THEN NullEntry ELSE build_mtr_entry(MTR_ROLLBACK, trx_id)
      a == append_log(log_buffer_, log_entry)
  IN
  /\ UNCHANGED fm_vars
  /\ Writing
  /\ Appended("append_rollback_trx_log", a.rc, log_entry, a)

append_commit_trx_log(trx_id, commit_xid, nomem, written) ==
  LET log_entry == IF nomem THEN NullEntry ELSE build_commit_entry(trx_id, commit_xid)
      r == append_commit(log_buffer_, log_file_, log_entry, written)
  IN
  /\ UNCHANGED fm_vars
  /\ Writing
  /\ log_buffer_' = r.buffer
  /\ log_file_' = r.file
  /\ appended' = IF r.append_rc = "SUCCESS" THEN Append(appended, log_entry) ELSE appended
  /\ log_rc' = LogRet("append_commit_trx_log", r.rc, r.append_rc, r.sync_rc)
  /\ UNCHANGED <<opened, it_vars, rec_vars>>

append_record_log(type, trx_id, table_id, data, nomem) ==
  LET log_entry == IF nomem THEN NullEntry
                   ELSE build_record_entry(type, trx_id, table_id, data)
  IN
  /\ UNCHANGED fm_vars
  /\ Writing
  /\ IF log_entry = NullEntry
       THEN /\ log_rc' = LogRet("append_record_log", "NOMEM", "none", "none")
            /\ UNCHANGED <<log_buffer_, log_file_, appended, opened, it_vars, rec_vars>>
       ELSE LET a == append_log(log_buffer_, log_entry) IN
            Appended("append_record_log", a.rc, log_entry, a)

sync(written) ==
  LET f == flush_buffer(log_buffer_, log_file_, written) IN
  /\ UNCHANGED fm_vars
  /\ opened = "write"
  /\ log_buffer_' = f.buffer
  /\ log_file_' = f.file
  /\ log_rc' = LogRet("sync", f.rc, "none", f.rc)
  /\ UNCHANGED <<appended, opened, it_vars, rec_vars>>

\* the process stops (or crashes) and the log file is opened again: the buffer is
\* gone; torn > 0: the crash came while the first buffered entry was being written
\* and left its first `torn` words in the file
reopen(torn) ==
  /\ UNCHANGED fm_vars
  /\ opened = "write"
  /\ opened' = "read"
  /\ log_buffer_' = <<>>
  /\ IF torn = 0
       THEN log_file_' = log_file_
       ELSE /\ log_buffer_ # <<>>
            /\ torn < Len(Serialize(log_buffer_[1]))
            /\ log_file_' = log_file_ \o SubSeq(Serialize(log_buffer_[1]), 1, torn)
  /\ log_rc' = NoLogRet
  /\ UNCHANGED <<appended, it_vars, rec_vars>>

\* a client walks the reopened file with a fresh LogEntryIterator, until next() fails
iterate(ioerr) ==
  /\ UNCHANGED fm_vars
  /\ opened = "read" /\ rec_pc = "idle"
  /\ it_rc \in {"none", "SUCCESS"}
  /\ Advance(next(log_file_, file_pos, log_entry_, ioerr))
  /\ UNCHANGED <<log_buffer_, log_file_, appended, log_rc, opened, rec_vars>>

\* ------------------------------------------------------------ LogManager::recover
\* TrxManager::find_trx: null for an id no create_trx was called with
find_trx(trxs, trx_id) == trxs[trx_id] > 0

\* the switch on the type of the entry at position i of the log
dispatch(e, i) ==
  IF e.type = MTR_BEGIN
    THEN /\ created' = [created EXCEPT ![e.trx_id] = Sat(@)]
         /\ uncommitted_trx_ids' = uncommitted_trx_ids \cup {e.trx_id}
         /\ rec_pc' = "next"
         /\ UNCHANGED <<redone, rolled>>
  ELSE IF e.type = ERROR
    THEN /\ rec_pc' = "next"
         /\ UNCHANGED <<uncommitted_trx_ids, created, redone, rolled>>
  ELSE IF find_trx(created, e.trx_id)
    THEN /\ redone' = [redone EXCEPT ![i] = Sat(@)]
         /\ uncommitted_trx_ids' = IF e.type = MTR_COMMIT
                                     THEN uncommitted_trx_ids \ {e.trx_id}
                                     ELSE uncommitted_trx_ids
         /\ rec_pc' = "next"
         /\ UNCHANGED <<created, rolled>>
    \* find_trx returned null and the call goes through it: undefined behaviour, the
    \* process dies or goes on as if the call had done nothing
    ELSE /\ rec_pc' \in {"crashed", "next"}
         /\ uncommitted_trx_ids' = IF e.type = MTR_COMMIT
                                     THEN uncommitted_trx_ids \ {e.trx_id}
                                     ELSE uncommitted_trx_ids
         /\ UNCHANGED <<created, redone, rolled>>

\* recover up to the first test of the loop: it.init, it.next(), it.valid()
recover_begin(ioerr) ==
  LET r == next(log_file_, file_pos, log_entry_, ioerr) IN
  /\ UNCHANGED fm_vars
  /\ opened = "read" /\ rec_pc = "idle" /\ it_rc = "none"
  /\ Advance(r)
  /\ rec_pc' = IF valid(r.entry) THEN "body" ELSE "rollback"
  /\ UNCHANGED <<log_buffer_, log_file_, appended, log_rc, opened,
                 uncommitted_trx_ids, created, redone, rolled>>

\* the body of the loop on it.log_entry()
recover_dispatch ==
  /\ UNCHANGED fm_vars
  /\ rec_pc = "body"
  /\ dispatch(log_entry_, Len(yielded))
  /\ UNCHANGED <<log_buffer_, log_file_, appended, log_rc, opened, it_vars>>

\* the step of the loop: it.next(), then the test it.valid()
recover_next(ioerr) ==
  LET r == next(log_file_, file_pos, log_entry_, ioerr) IN
  /\ UNCHANGED fm_vars
  /\ rec_pc = "next"
  /\ Advance(r)
  /\ rec_pc' = IF valid(r.entry) THEN "body" ELSE "rollback"
  /\ UNCHANGED <<log_buffer_, log_file_, appended, log_rc, opened,
                 uncommitted_trx_ids, created, redone, rolled>>

\* after the loop: rollback of what is left in uncommitted_trx_ids, return SUCCESS
recover_rollback ==
  /\ UNCHANGED fm_vars
  /\ rec_pc = "rollback"
  /\ IF \A t \in uncommitted_trx_ids : find_trx(created, t)
       THEN /\ rolled' = [t \in TrxIds |->
                            IF t \in uncommitted_trx_ids THEN Sat(rolled[t]) ELSE rolled[t]]
            /\ rec_pc' = "done"
            /\ log_rc' = LogRet("recover", "SUCCESS", "none", "none")
       ELSE /\ rec_pc' = "crashed"
            /\ UNCHANGED <<rolled, log_rc>>
  /\ UNCHANGED <<log_buffer_, log_file_, appended, opened, it_vars,
                 uncommitted_trx_ids, created, redone>>

Init ==
  /\ frames_ = <<>>
  /\ allocator_ = {}
  /\ inited = FALSE
  /\ pin_count = [f \in Frames |-> 0]
  /\ cleanup_pc = "idle"
  /\ last = NoRet
  /\ failed = FALSE
  /\ log_buffer_ = <<>>
  /\ log_file_ = <<>>
  /\ appended = <<>>
  /\ log_rc = NoLogRet
  /\ opened = "write"
  /\ file_pos = 0
  /\ log_entry_ = NoEntry
  /\ it_rc = "none"
  /\ yielded = <<>>
  /\ rec_pc = "idle"
  /\ uncommitted_trx_ids = {}
  /\ created = [t \in TrxIds |-> 0]
  /\ redone = [i \in 1..(MaxLog + 1) |-> 0]
  /\ rolled = [t \in TrxIds |-> 0]

Next ==
  \/ init
  \/ cleanup_check
  \/ cleanup_destroy
  \/ \E id \in FrameIds : alloc(id[1], id[2])
  \/ \E id \in FrameIds : get(id[1], id[2])
  \/ \E count \in Counts, fails \in SUBSET Evictable(frames_, pin_count) :
       evict_frames(count, fails)
  \/ \E fd \in FileDescs : find_list(fd)
  \/ \E id \in FrameIds, frame \in Frames : free(id[1], id[2], frame)
  \/ \E frame \in Frames : unpin(frame)

Spec == Init /\ [][Next]_vars

LogNext ==
  \/ \E t \in TrxIds, nomem \in BOOLEAN : append_begin_trx_log(t, nomem)
  \/ \E t \in TrxIds, nomem \in BOOLEAN : append_rollback_trx_log(t, nomem)
  \/ \E t \in TrxIds, x \in CommitXids, nomem \in BOOLEAN, written \in 0..(MaxLog + 1) :
       append_commit_trx_log(t, x, nomem, written)
  \/ \E t \in TrxIds, nomem \in BOOLEAN : append_record_log(INSERT, t, TableId, RecordData, nomem)
  \/ \E written \in 0..Len(log_buffer_) : sync(written)
  \/ \E torn \in 0..(HeaderLen + 2) : reopen(torn)
  \/ \E ioerr \in BOOLEAN : iterate(ioerr)
  \/ \E ioerr \in BOOLEAN : recover_begin(ioerr)
  \/ recover_dispatch
  \/ \E ioerr \in BOOLEAN : recover_next(ioerr)
  \/ recover_rollback

LogSpec == Init /\ [][LogNext]_vars

\* recover is one sequential call: once begun, it keeps running
FairLogSpec ==
  /\ LogSpec
  /\ WF_vars(recover_dispatch)
  /\ WF_vars(\E ioerr \in BOOLEAN : recover_next(ioerr))
  /\ WF_vars(recover_rollback)

\* ------------------------------------------------------------ properties
FrameOf(c, id) == IF CacheIndex(c, id) = 0 THEN NoFrame ELSE c[CacheIndex(c, id)].frame
Unpinned(c, pins) == {i \in 1..Len(c) : pins[c[i].frame] = 0}

\* a step in which a call of evict_frames returns (and changes anything at all)
EvictStep == last'.op = "evict_frames" /\ (last' # last \/ frames_' # frames_)

\* C1: the resident set never exceeds the pool size, and no frame is mapped by two
\* FrameIds (nor a FrameId entered twice).
C1_PoolNeverOvercommitted ==
  /\ CacheCount(frames_) <= PoolNum
  /\ \A i, j \in 1..Len(frames_) :
       i # j => (frames_[i].frame # frames_[j].frame /\ frames_[i].id # frames_[j].id)

\* C1 witness: the pool is full and an alloc of a further id came back null.
C1_Witness ==
  /\ CacheCount(frames_) = PoolNum
  /\ last.op = "alloc" /\ last.frame = NoFrame

\* C2: an evict_frames call leaves every frame that is pinned when the call runs
\* resident under its id, out of the allocator and with its pin_count; what it
\* removes had pin_count 0.
C2_PinnedNeverEvicted ==
  [][EvictStep =>
         /\ \A i \in 1..Len(frames_) :
              pin_count[frames_[i].frame] > 0 =>
                /\ FrameOf(frames_', frames_[i].id) = frames_[i].frame
                /\ frames_[i].frame \notin allocator_'
         /\ \A f \in allocator_' \ allocator_ : pin_count[f] = 0
         /\ pin_count' = pin_count]_vars

\* C2 witness: an evict_frames call has evicted a frame while another frame stays
\* resident and pinned.
C2_Witness ==
  /\ last.op = "evict_frames" /\ last.n >= 1
  /\ \E i \in 1..Len(frames_) : pin_count[frames_[i].frame] > 0

\* C3: evict_frames(n, always SUCCESS) with k unpinned resident frames removes
\* min(n, k) frames, returns min(n, k) and leaves the pinned frames alone.
C3_EvictsMinOfCountAndUnpinned ==
  [][\A count \in Counts :
       evict_frames(count, {}) =>
         LET k == Cardinality(Unpinned(frames_, pin_count)) IN
         /\ last'.n = Min(count, k)
         /\ Len(frames_') = Len(frames_) - Min(count, k)
         /\ \A i \in 1..Len(frames_) :
              pin_count[frames_[i].frame] > 0 =>
                FrameOf(frames_', frames_[i].id) = frames_[i].frame
         /\ pin_count' = pin_count]_vars

C5_FreeOnlyLastHolder ==
  [][\A id \in FrameIds, frame \in Frames :
       ((failed' \/ last'.op = "free") /\ free(id[1], id[2], frame)) =>
         IF FrameOf(frames_, id) = frame /\ pin_count[frame] = 1
           THEN /\ ~failed'
                /\ last'.op = "free" /\ last'.rc = "SUCCESS"
                /\ id \notin ResidentIds(frames_')
                /\ allocator_' = allocator_ \cup {frame}
                /\ pin_count'[frame] = 0
           ELSE /\ failed'
                /\ UNCHANGED <<frames_, allocator_, pin_count>>]_vars

\* C5 witness: a free has failed its assertion while a frame with two pins is resident.
C5_Witness ==
  /\ failed
  /\ \E i \in 1..Len(frames_) :
       pin_count[frames_[i].frame] = 2 /\ frames_[i].frame \notin allocator_

\* C6: cleanup returns INTERNAL and leaves the cache alone when its residency test
\* finds a frame, and goes on to destroy the cache and return SUCCESS only when the
\* test finds none.
C6_CleanupLeakDetector ==
  [][/\ cleanup_check =>
          IF CacheCount(frames_) > 0
            THEN /\ last'.op = "cleanup" /\ last'.rc = "INTERNAL"
                 /\ cleanup_pc' = "idle"
                 /\ UNCHANGED <<frames_, allocator_, pin_count>>
            ELSE /\ cleanup_pc' = "destroy"
                 /\ UNCHANGED <<frames_, allocator_, pin_count, last>>
     /\ cleanup_destroy =>
          /\ last'.op = "cleanup" /\ last'.rc = "SUCCESS"
          /\ frames_' = <<>>]_vars

\* C6 witness: cleanup has returned INTERNAL on a cache that holds a frame.
C6_Witness ==
  /\ last.op = "cleanup" /\ last.rc = "INTERNAL"
  /\ CacheCount(frames_) > 0

\* C7: every public operation holds the mutex from start to end, so while a thread is
\* inside one (here cleanup, between its residency test and the destruction) no other
\* thread's operation changes the cache.
C7_OperationsNeverInterleave ==
  [][(cleanup_pc = "destroy" /\ cleanup_pc' = "destroy") => frames_' = frames_]_vars


\* ------------------------------------------------------------ log properties
IsPrefix(a, b) == Len(a) <= Len(b) /\ a = SubSeq(b, 1, Len(a))

\* every appended entry is in the file, whole, and nothing else is
CleanLog == log_file_ = SerializeAll(appended)

\* C8: when append_commit_trx_log returns SUCCESS the commit entry is the last appended
\* entry and the file holds every appended entry in append order; when the append of
\* the commit entry fails, sync is not called and that failure is returned; when sync
\* fails, its code is returned.
C8_CommitDurable ==
  log_rc.op = "append_commit_trx_log" =>
    /\ log_rc.rc = "SUCCESS" =>
         /\ appended # <<>>
         /\ appended[Len(appended)].type = MTR_COMMIT
         /\ log_file_ = SerializeAll(appended)
         /\ log_buffer_ = <<>>
    /\ log_rc.append_rc # "SUCCESS" =>
         /\ log_rc.sync_rc = "none"
         /\ log_rc.rc = log_rc.append_rc
    /\ log_rc.sync_rc \notin {"none", "SUCCESS"} =>
         /\ log_rc.rc = log_rc.sync_rc
         /\ log_rc.append_rc = "SUCCESS"

\* a commit returned SUCCESS after an earlier sync had left entries in the buffer
C8_Witness ==
  /\ log_rc.op = "append_commit_trx_log"
  /\ log_rc.rc = "SUCCESS"
  /\ Len(appended) >= 3
  /\ \E i \in 1..(Len(appended) - 1) : appended[i].type = INSERT

\* C9: over a file that holds exactly the appended and synced entries E1..En, the
\* iterator has yielded a prefix of E1..En, equal in header fields and payload; its
\* next call without an I/O error yields the following entry with SUCCESS while there
\* is one, and RECORD_EOF after En; it has returned RECORD_EOF only after all n.
C9_IteratorRoundTrip ==
  (opened = "read" /\ CleanLog) =>
    LET r == next(log_file_, file_pos, log_entry_, FALSE) IN
    /\ IsPrefix(yielded, appended)
    /\ it_rc = "RECORD_EOF" => yielded = appended
    /\ it_rc = "SUCCESS" => log_entry_ = appended[Len(yielded)]
    /\ IF Len(yielded) < Len(appended)
         THEN r.rc = "SUCCESS" /\ r.entry = appended[Len(yielded) + 1]
         ELSE r.rc = "RECORD_EOF"

\* a walk over three entries, with and without payload, has ended with RECORD_EOF
C9_Witness ==
  /\ opened = "read" /\ CleanLog /\ rec_pc = "idle"
  /\ it_rc = "RECORD_EOF"
  /\ Len(yielded) = MaxLog
  /\ \E i \in 1..Len(yielded) : yielded[i].payload = <<>>
  /\ \E i \in 1..Len(yielded) : Len(yielded[i].payload) = 1
  /\ \E i \in 1..Len(yielded) : Len(yielded[i].payload) > 1

\* each transaction's entries start with its MTR_BEGIN
WellFormed(L) ==
  \A i \in 1..Len(L) :
    L[i].type = MTR_BEGIN <=> ~ \E j \in 1..(i - 1) : L[j].trx_id = L[i].trx_id

CommitRead(L, t) == \E i \in 1..Len(L) : L[i].type = MTR_COMMIT /\ L[i].trx_id = t

Uncommitted(L, t) ==
  \E i \in 1..Len(L) :
    /\ L[i].type = MTR_BEGIN /\ L[i].trx_id = t
    /\ ~ \E j \in (i + 1)..Len(L) : L[j].type = MTR_COMMIT /\ L[j].trx_id = t

RecoverOutcome(L) ==
  /\ \A t \in TrxIds : rolled[t] = IF Uncommitted(L, t) THEN 1 ELSE 0
  /\ \A i \in 1..Len(L) :
       (L[i].type # MTR_BEGIN /\ CommitRead(L, L[i].trx_id)) => redone[i] >= 1

\* C10: recover, started on a log in which each transaction's entries start with its
\* MTR_BEGIN, returns unless a read fails with an I/O error, and when it returns
\* rollback has been invoked exactly once on each transaction begun and not committed
\* in the log, on no committed one, and redo has been invoked with the record and
\* commit entries of every committed transaction.
C10_RecoverRollsBackUncommitted ==
  [](  (rec_pc = "body" /\ CleanLog /\ WellFormed(appended))
    => <>(it_rc = "IOERR" \/ (rec_pc = "done" /\ RecoverOutcome(appended))))


\* the file ends with a torn record: after some whole entries, the header of the next
\* appended entry and less than its whole payload
TornPayload ==
  \E k \in 0..(Len(appended) - 1) :
    LET s == Serialize(appended[k + 1]) IN
    \E m \in HeaderLen..(Len(s) - 1) :
      log_file_ = SerializeAll(SubSeq(appended, 1, k)) \o SubSeq(s, 1, m)

\* C11: recover terminates on every finite log: once begun it reaches its return
\* (or the process dies in a call through a null transaction).
C11_RecoverTerminates ==
  [](rec_pc \in {"body", "next", "rollback"} => <>(rec_pc \in {"done", "crashed"}))

\* C12: when the payload read of a torn last record fails, recover's scan stops there
\* and goes to the rollback step.
C12_TornTailStopsScan ==
  [][(/\ rec_pc = "next"
      /\ TornPayload
      /\ it_rc' = "IOERR"
      /\ file_pos' # file_pos) => rec_pc' = "rollback"]_vars

\* C13: each append_*_log call whose builder returns null returns NOMEM and leaves
\* the buffer (and the file) as they were.
C13_NullEntryIsNomem ==
  [][\A t \in TrxIds :
       (\/ append_begin_trx_log(t, TRUE)
        \/ append_rollback_trx_log(t, TRUE)
        \/ \E x \in CommitXids, written \in 0..(MaxLog + 1) :
             append_commit_trx_log(t, x, TRUE, written)
        \/ append_record_log(INSERT, t, TableId, RecordData, TRUE)) =>
         /\ log_rc'.rc = "NOMEM"
         /\ UNCHANGED <<log_buffer_, log_file_>>]_vars

\* C14: recover dispatches each entry it has read at most once: one redo per commit or
\* record entry, one create_trx per MTR_BEGIN entry.
C14_SingleForwardPass ==
  /\ \A i \in 1..Len(yielded) : redone[i] <= 1
  /\ \A t \in TrxIds :
       created[t] <= Cardinality({i \in 1..Len(yielded) :
                                    yielded[i].type = MTR_BEGIN /\ yielded[i].trx_id = t})

\* the entry whose words start at position pos of the file
ParseAt(file, pos) ==
  [type |-> file[pos + 1], trx_id |-> file[pos + 2],
   payload |-> SubSeq(file, pos + HeaderLen + 1, pos + HeaderLen + file[pos + 3])]

\* C15: valid() is false until a next() has returned SUCCESS; a step in which no
\* next() returns SUCCESS leaves the stored entry as it was; a next() that returns
\* SUCCESS stores the entry read at the cursor.
C15_IteratorKeepsLastEntry ==
  [][/\ valid(log_entry_') <=> yielded' # <<>>
     /\ it_rc' # "SUCCESS" => log_entry_' = log_entry_
     /\ yielded' = yielded => log_entry_' = log_entry_
     /\ yielded' # yielded =>
          /\ it_rc' = "SUCCESS"
          /\ log_entry_' = ParseAt(log_file_, file_pos)
          /\ yielded' = Append(yielded, log_entry_')]_vars

\* a payload read has failed on a torn record and the entry read before it is still
\* the stored one
C15_Witness ==
  /\ opened = "read" /\ rec_pc = "idle"
  /\ TornPayload
  /\ it_rc = "IOERR" /\ file_pos = Len(log_file_)
  /\ valid(log_entry_) /\ yielded # <<>>
  /\ log_entry_ = yielded[Len(yielded)]


\* C16: in an evict_frames call, a frame evict_action fails on stays resident under its
\* id, out of the allocator and out of the result; the frames after it are still
\* visited: with count >= 1 the call evicts min(count, k) frames, k the evictable
\* frames evict_action succeeds on.
C16_FailedEvictionSkipped ==
  [][EvictStep =>
       \A fails \in SUBSET Evictable(frames_, pin_count) :
         evict_frames(last'.count, fails) =>
           LET gone == Resident(frames_) \ Resident(frames_') IN
           /\ \A i \in 1..Len(frames_) :
                frames_[i].frame \in fails =>
                  /\ FrameOf(frames_', frames_[i].id) = frames_[i].frame
                  /\ frames_[i].frame \notin allocator_'
           /\ last'.n = Cardinality(gone)
           /\ allocator_' = allocator_ \cup gone
           /\ last'.count >= 1 =>
                last'.n = Min(last'.count,
                              Cardinality(Evictable(frames_, pin_count) \ fails))]_vars

\* an evict_frames call has evicted a frame and left an unpinned frame resident though
\* it was asked for more: evict_action failed on the frame left
C16_Witness ==
  /\ last.op = "evict_frames"
  /\ last.n >= 1 /\ last.n < last.count
  /\ \E i \in 1..Len(frames_) : pin_count[frames_[i].frame] = 0

\* the resident frames of a file
FramesOfFile(c, fd) == {c[i].frame : i \in {j \in 1..Len(c) : c[j].id[1] = fd}}

\* C17: find_list(fd) returns exactly the resident frames of file fd, each once and
\* with one more pin; the other frames keep their pin_count; cache and allocator are
\* unchanged.
C17_FindListPinsFileFrames ==
  [][\A fd \in FileDescs :
       (last'.op = "find_list" /\ find_list(fd)) =>
         LET S == FramesOfFile(frames_, fd) IN
         /\ {last'.list[i] : i \in 1..Len(last'.list)} = S
         /\ Len(last'.list) = Cardinality(S)
         /\ pin_count' = [f \in Frames |-> IF f \in S THEN pin_count[f] + 1 ELSE pin_count[f]]
         /\ \A f \in S : ~can_evict(pin_count', f)
         /\ UNCHANGED <<frames_, allocator_>>]_vars

\* find_list has returned a pinned frame while a frame of another file is resident and
\* unpinned
C17_Witness ==
  /\ last.op = "find_list" /\ Len(last.list) >= 1
  /\ \A i \in 1..Len(last.list) : pin_count[last.list[i]] >= 1
  /\ \E f \in Resident(frames_) :
       /\ \A i \in 1..Len(last.list) : last.list[i] # f
       /\ pin_count[f] = 0

\* C18: every frame in the allocator has pin_count 0, so the assertion of alloc holds:
\* an alloc that takes a frame from the allocator returns it resident under the id
\* with pin_count 1.
C18_AllocatedFrameUnpinned ==
  [][/\ \A f \in allocator_' : pin_count'[f] = 0
     /\ \A id \in FrameIds :
          (/\ Cardinality(allocator_') < Cardinality(allocator_)
           /\ alloc(id[1], id[2])) =>
            /\ ~failed'
            /\ last'.op = "alloc" /\ last'.frame \in allocator_
            /\ allocator_' = allocator_ \ {last'.frame}
            /\ pin_count[last'.frame] = 0
            /\ pin_count' = pin(pin_count, last'.frame)
            /\ FrameOf(frames_', id) = last'.frame]_vars

\* alloc has taken the last frame of the pool from the allocator and returned it
\* resident and pinned once
C18_Witness ==
  /\ last.op = "alloc" /\ last.frame # NoFrame
  /\ pin_count[last.frame] = 1
  /\ allocator_ = {}
  /\ FrameOf(frames_, <<2, 1>>) = last.frame
  /\ Len(frames_) = PoolNum

\* C19: once the pool is initialised, every frame is either resident or free in the
\* allocator, never both: resident and free frames together are the whole pool.
C19_NoFrameLeaked ==
  inited =>
    /\ Resident(frames_) \cap allocator_ = {}
    /\ Resident(frames_) \cup allocator_ = Frames

\* C20: recover never goes through a null find_trx: the transaction of every commit,
\* record or rollback entry it dispatches, and of every id it rolls back at the end,
\* has been created by a create_trx earlier in the scan.
C20_FindTrxNeverNull ==
  /\ rec_pc # "crashed"
  /\ (rec_pc = "body" /\ log_entry_.type \notin {MTR_BEGIN, ERROR}) =>
       find_trx(created, log_entry_.trx_id)
  /\ rec_pc = "rollback" => \A t \in uncommitted_trx_ids : find_trx(created, t)

====
